---------------------------- MODULE Spec2Model ----------------------------
(* issue-roulette (src/main.rs): one run of the program, from the command  *)
(* line to the exit code.  The run is the body of `main`, cut into steps   *)
(* at the points where it can stop: argument and token resolution, client  *)
(* construction, the repository request, the filter and the random choice  *)
(* of a repository, the issue request, the random choice of an issue and   *)
(* the final print.  The environment (command line, environment variable,  *)
(* the answers of the REST API, the random source) is chosen               *)
(* nondeterministically from small sets.                                    *)
(*                                                                          *)
(* Strings are TLA+ strings and are built with \o as the code builds them  *)
(* with format!.  TLA+ strings are ASCII, so the two emoji of the final    *)
(* line are written "<star>" (U+1F31F) and "<unicorn>" (U+1F984).  Tokens  *)
(* are sequences of bytes because HeaderValue::from_str validates bytes.   *)
EXTENDS Integers, Sequences, FiniteSets, TLC

VARIABLES
    cli,            \* the command line given to the process
    env,            \* value of ISSUE_ROULETTE_TOKEN, an Option
    pc,             \* stage of main about to run, or "Exit"
    trace,          \* the stages entered so far, in order
    args,           \* Option<Args>, set by Args::parse
    token,          \* Option<HeaderValue>, set by get_token
    client,         \* Option<reqwest::Client>
    requests,       \* every request handed to the transport, in order
    repos_resp,     \* Option: the answer received for the repository request
    repos,          \* Vec<Repo> (empty until fetched)
    filtered_repos, \* Vec<&Repo>
    repo,           \* Option<&Repo>: the chosen repository
    issues_resp,    \* Option: the answer received for the issue request
    issues,         \* Vec<Issue>
    issue,          \* Option<&Issue>: the chosen issue
    stdout,         \* lines written to standard output
    stderr,         \* messages written to standard error
    exit_code       \* Option<int>: the process exit status

vars == <<cli, env, pc, trace, args, token, client, requests, repos_resp,
          repos, filtered_repos, repo, issues_resp, issues, issue,
          stdout, stderr, exit_code>>

-----------------------------------------------------------------------------
(* Bounds of the model.                                                     *)
MaxRepos == 2
MaxIssues == 2

-----------------------------------------------------------------------------
(* Option and Result.                                                       *)
None == [some |-> FALSE]
Some(v) == [some |-> TRUE, val |-> v]
Ok(v) == [ok |-> TRUE, val |-> v]
Err(e) == [ok |-> FALSE, val |-> e]

\* Option::or with the operands taken in the other order.
OptionOr_envfirst(a, b) == IF b.some THEN b ELSE a

\* Option::or
OptionOr(a, b) == IF a.some THEN a ELSE b

-----------------------------------------------------------------------------
(* Inputs.                                                                  *)
\* "cli", "env" and "b\n" as bytes; the last holds a line feed, which no
\* header value may contain.
TokCli == <<99, 108, 105>>
TokEnv == <<101, 110, 118>>
TokBad == <<98, 10>>

CommandLines ==
    [flag : {"none"}, username : {Some("alice")},
     include_forked_repos : BOOLEAN,
     token : {None, Some(TokCli), Some(TokBad)}]
    \cup
    { [flag |-> "help", username |-> None,
       include_forked_repos |-> FALSE, token |-> None],
      [flag |-> "version", username |-> None,
       include_forked_repos |-> FALSE, token |-> None],
      [flag |-> "none", username |-> None,
       include_forked_repos |-> TRUE, token |-> Some(TokCli)],
      [flag |-> "none", username |-> Some("bob"),
       include_forked_repos |-> FALSE, token |-> None] }

EnvValues == {None, Some(TokEnv)}

\* full_name of the i-th repository of a listing (full names are unique).
RepoName(i) == IF i = 1 THEN "a/b" ELSE "a/b" \o ToString(i)

\* A repository object of the API's JSON: the four fields Repo reads and one
\* it does not.
RepoJson(i, k) ==
    [id |-> i, full_name |-> RepoName(i), fork |-> k.fork,
     has_issues |-> k.has_issues, open_issues |-> k.open_issues]

RepoKinds == [fork : BOOLEAN, has_issues : BOOLEAN, open_issues : {0, 3}]

RepoArrays ==
    UNION { { [i \in 1..n |-> RepoJson(i, ks[i])] : ks \in [1..n -> RepoKinds] }
            : n \in 0..MaxRepos }

\* The error object the API sends with a 404.
NotFoundJson == [tag |-> "object", fields |-> [message |-> "Not Found"]]
\* An array whose element lacks fields Repo and Issue both require.
PartialArrayJson == [tag |-> "array", val |-> <<[full_name |-> "a/b", number |-> 7]>>]

RepoBodies ==
    { [tag |-> "array", val |-> a] : a \in RepoArrays }
    \cup {NotFoundJson, PartialArrayJson}

IssueJsonKinds ==
    { [title |-> "Fix bug", number |-> 7, url |-> "http://x/7"],
      [title |-> "Fix bug", number |-> 7, url |-> "http://api/x/7",
       html_url |-> "http://x/7"],
      [title |-> "Add docs", number |-> 12, url |-> "http://api/x/12",
       html_url |-> "http://x/12"] }

IssueArrays == UNION { [1..n -> IssueJsonKinds] : n \in 0..MaxIssues }

IssueBodies ==
    { [tag |-> "array", val |-> a] : a \in IssueArrays } \cup {NotFoundJson}

\* What the transport gives back for a request: a connection failure, or a
\* response with a status and a body.
Responses(bodies) ==
    { [sent |-> FALSE, status |-> 0, body |-> NotFoundJson] }
    \cup [sent : {TRUE}, status : {200, 404}, body : bodies]


-----------------------------------------------------------------------------
(* Args::parse (clap derive).  --help and --version print to standard      *)
(* output and end the process with status 0; a missing required argument   *)
(* is an error on standard error with status 2.                            *)
ArgsParse(line) ==
    IF line.flag = "help" THEN
        [kind |-> "display", text |-> "Simple program to choose a random open issue to work on."]
    ELSE IF line.flag = "version" THEN
        [kind |-> "display", text |-> "issue-roulette"]
    ELSE IF ~line.username.some THEN
        [kind |-> "error", text |-> "the following required arguments were not provided: --username <USERNAME>"]
    ELSE
        [kind |-> "ok",
         args |-> [username |-> line.username.val,
                   include_forked_repos |-> line.include_forked_repos,
                   token |-> line.token]]

\* "Bearer " as bytes.
BearerPrefix == <<66, 101, 97, 114, 101, 114, 32>>

\* HeaderValue::from_str: every byte is visible ASCII, a space, a tab or
\* above 127.
HeaderValueFromStr(bytes) ==
    IF \A i \in 1..Len(bytes) :
           (bytes[i] >= 32 /\ bytes[i] # 127) \/ bytes[i] = 9
    THEN Ok(bytes)
    ELSE Err([kind |-> "InvalidHeaderValue"])

\* get_token: the command-line token, else the environment variable.
get_token(tok, envv) ==
    LET t == OptionOr(tok, envv) IN
    IF t.some THEN
        LET value == HeaderValueFromStr(BearerPrefix \o t.val) IN
        IF value.ok THEN Ok(Some(value.val)) ELSE value
    ELSE Ok(None)

\* build_http_client: the default headers of every request of the client.
\* `built` is whether reqwest's builder succeeds.
build_http_client(tok, built) ==
    LET fixed == ("Accept" :> "application/vnd.github+json")
                 @@ ("X-Github-Api-Version" :> "2022-11-28")
        headers == IF tok.some
                   THEN fixed @@ ("authorization" :> tok.val)
                   ELSE fixed
    IN  IF built
        THEN Ok([user_agent |-> "issue-roulette", default_headers |-> headers])
        ELSE Err([kind |-> "reqwest::Error", what |-> "builder"])

-----------------------------------------------------------------------------
(* Errors and decoding.                                                      *)
BadRequestError(status, text) ==
    [kind |-> "BadRequestError", status |-> status, text |-> text]

\* A reqwest::Error of a failed send or a failed decode holds neither the
\* status nor the body of a response.
ReqwestError(what) == [kind |-> "reqwest::Error", what |-> what]

RepoFields == {"full_name", "fork", "has_issues", "open_issues"}
IssueFields == {"title", "number", "html_url"}

\* serde: struct Repo from a JSON object; unknown fields are ignored.
DeserializeRepo(o) ==
    [full_name |-> o.full_name, fork |-> o.fork,
     has_issues |-> o.has_issues, open_issues |-> o.open_issues]

\* serde: struct Issue from a JSON object.
DeserializeIssue(o) ==
    [title |-> o.title, number |-> o.number, html_url |-> o.html_url]

\* Response::json::<Vec<Repo>>
JsonVecRepo(body) ==
    IF body.tag = "array"
       /\ \A i \in 1..Len(body.val) :
              /\ RepoFields \subseteq DOMAIN body.val[i]
              /\ body.val[i].open_issues \in Nat
    THEN Ok([i \in 1..Len(body.val) |-> DeserializeRepo(body.val[i])])
    ELSE Err(ReqwestError("decode"))

\* Response::json::<Vec<Issue>>
JsonVecIssue(body) ==
    IF body.tag = "array"
       /\ \A i \in 1..Len(body.val) :
              /\ IssueFields \subseteq DOMAIN body.val[i]
              /\ body.val[i].number \in Nat
    THEN Ok([i \in 1..Len(body.val) |-> DeserializeIssue(body.val[i])])
    ELSE Err(ReqwestError("decode"))

-----------------------------------------------------------------------------
(* The three requests.  Each operator takes the answer of the transport.    *)
PerPage == 100
ApiBase == "https://api.github.com"

AllReposUrl == ApiBase \o "/user/repos?per_page=" \o ToString(PerPage)

\* The public listing sent to the endpoint of the authenticated listing.
PublicReposUrl_authpath(username) == AllReposUrl

PublicReposUrl(username) ==
    ApiBase \o "/users/" \o username \o "/repos?per_page=" \o ToString(PerPage)
IssuesUrl(full_name) == ApiBase \o "/repos/" \o full_name \o "/issues"

get_all_repos(resp) ==
    IF ~resp.sent THEN Err(ReqwestError("request"))
    ELSE IF resp.status # 200
         THEN Err(BadRequestError(resp.status, resp.body))
         ELSE JsonVecRepo(resp.body)

get_public_repos(resp) ==
    IF ~resp.sent THEN Err(ReqwestError("request"))
    ELSE JsonVecRepo(resp.body)

get_issues(resp) ==
    IF ~resp.sent THEN Err(ReqwestError("request"))
    ELSE JsonVecIssue(resp.body)

-----------------------------------------------------------------------------
(* Filter, choice and display.                                               *)
HasOpenIssues(r) == r.has_issues /\ r.open_issues > 0
\* The fork test without its negation.
ForkAllowed_inverted(r, include_forked_repos) == include_forked_repos \/ r.fork

ForkAllowed(r, include_forked_repos) == include_forked_repos \/ ~r.fork

\* repos.iter().filter(..).filter(..).collect()
FilterRepos(rs, include_forked_repos) ==
    LET first(r) == HasOpenIssues(r)
        second(r) == ForkAllowed(r, include_forked_repos)
    IN  SelectSeq(SelectSeq(rs, first), second)

\* A choice that always takes the first element.
Choose_first(s) == IF Len(s) = 0 THEN {None} ELSE {Some(s[1])}

\* SliceRandom::choose: None for an empty slice, else any element.
Choose(s) ==
    IF Len(s) = 0 THEN {None} ELSE { Some(s[i]) : i \in 1..Len(s) }

\* Display with the title and the number exchanged.
IssueDisplay_swapped(i) ==
    "[" \o i.title \o "] " \o ToString(i.number) \o " -> " \o i.html_url

\* impl Display for Issue
IssueDisplay(i) ==
    "[" \o ToString(i.number) \o "] " \o i.title \o " -> " \o i.html_url

\* The progress line without the count.
ProgressLine_nocount(rs) == "Choosing issue from repositories..."

ProgressLine(rs) ==
    "Choosing issue from " \o ToString(Len(rs)) \o " repositories..."

ResultLine(i) == "<star><unicorn> " \o IssueDisplay(i) \o " <unicorn><star>"

-----------------------------------------------------------------------------
(* The run.                                                                  *)
Init ==
    /\ cli \in CommandLines
    /\ env \in EnvValues
    /\ pc = "ParseConfig"
    /\ trace = <<"ParseConfig">>
    /\ args = None
    /\ token = None
    /\ client = None
    /\ requests = <<>>
    /\ repos_resp = None
    /\ repos = <<>>
    /\ filtered_repos = <<>>
    /\ repo = None
    /\ issues_resp = None
    /\ issues = <<>>
    /\ issue = None
    /\ stdout = <<>>
    /\ stderr = <<>>
    /\ exit_code = None

\* Entering the next stage of main.
Goto(stage) ==
    /\ pc' = stage
    /\ trace' = Append(trace, stage)
    /\ exit_code' = None
    /\ stderr' = stderr

\* A failure that is reported but ends the process with status 0.
Panic_status0(msg, err) ==
    /\ pc' = "Exit"
    /\ trace' = trace
    /\ stderr' = Append(stderr, [msg |-> msg, err |-> err])
    /\ exit_code' = Some(0)

\* Option::expect / Result::expect failing: the panic message goes to
\* standard error and the process ends with status 101.
Panic(msg, err) ==
    /\ pc' = "Exit"
    /\ trace' = trace
    /\ stderr' = Append(stderr, [msg |-> msg, err |-> err])
    /\ exit_code' = Some(101)

\* The request the client sends for a URL.
Request(url) == [url |-> url, headers |-> client.val.default_headers]

\* main, lines 54-56: Args::parse and get_token.
ParseConfig ==
    /\ pc = "ParseConfig"
    /\ LET parsed == ArgsParse(cli) IN
       CASE parsed.kind = "display" ->
              /\ stdout' = Append(stdout, parsed.text)
              /\ stderr' = stderr
              /\ exit_code' = Some(0)
              /\ pc' = "Exit"
              /\ UNCHANGED <<trace, args, token>>
         [] parsed.kind = "error" ->
              /\ stderr' = Append(stderr, [msg |-> parsed.text, err |-> None])
              /\ exit_code' = Some(2)
              /\ pc' = "Exit"
              /\ UNCHANGED <<trace, args, token, stdout>>
         [] parsed.kind = "ok" ->
              LET t == get_token(parsed.args.token, env) IN
              /\ args' = Some(parsed.args)
              /\ stdout' = stdout
              /\ IF t.ok
                 THEN token' = t.val /\ Goto("BuildClient")
                 ELSE token' = token
                      /\ Panic("Failed to build Auth token header.", Some(t.val))
    /\ UNCHANGED <<cli, env, client, requests, repos_resp, repos,
                   filtered_repos, repo, issues_resp, issues, issue>>

\* main, line 57.
BuildClient ==
    /\ pc = "BuildClient"
    /\ \E built \in BOOLEAN :
         LET c == build_http_client(token, built) IN
         IF c.ok
         THEN client' = Some(c.val) /\ Goto("FetchRepos")
         ELSE client' = client
              /\ Panic("Failed to build http client.", Some(c.val))
    /\ UNCHANGED <<cli, env, args, token, requests, repos_resp, repos,
                   filtered_repos, repo, issues_resp, issues, issue, stdout>>

\* main, lines 59-63: one request, to the endpoint the token decides.
FetchRepos ==
    /\ pc = "FetchRepos"
    /\ \E resp \in Responses(RepoBodies) :
         LET url == IF token.some THEN AllReposUrl
                    ELSE PublicReposUrl(args.val.username)
             repos_req == IF token.some THEN get_all_repos(resp)
                          ELSE get_public_repos(resp)
         IN  /\ requests' = Append(requests, Request(url))
             /\ repos_resp' = Some(resp)
             /\ IF repos_req.ok
                THEN repos' = repos_req.val /\ Goto("FilterSelectRepo")
                ELSE repos' = repos
                     /\ Panic("Failed to retrieve repositories.", Some(repos_req.val))
    /\ UNCHANGED <<cli, env, args, token, client, filtered_repos, repo,
                   issues_resp, issues, issue, stdout>>

\* The choice falling back to the unfiltered list when the filter keeps
\* nothing.
FilterSelectRepo_fallback ==
    /\ pc = "FilterSelectRepo"
    /\ stdout' = Append(stdout, ProgressLine(repos))
    /\ filtered_repos' = FilterRepos(repos, args.val.include_forked_repos)
    /\ \E chosen \in Choose(IF Len(filtered_repos') = 0 THEN repos
                              ELSE filtered_repos') :
         IF chosen.some
         THEN repo' = chosen /\ Goto("FetchIssues")
         ELSE repo' = repo
              /\ Panic("No viable repos to choose issues from.", None)
    /\ UNCHANGED <<cli, env, args, token, client, requests, repos_resp,
                   repos, issues_resp, issues, issue>>

\* main, lines 65-73: the progress line, the filter and the random choice.
FilterSelectRepo ==
    /\ pc = "FilterSelectRepo"
    /\ stdout' = Append(stdout, ProgressLine(repos))
    /\ filtered_repos' = FilterRepos(repos, args.val.include_forked_repos)
    /\ \E chosen \in Choose(filtered_repos') :
         IF chosen.some
         THEN repo' = chosen /\ Goto("FetchIssues")
         ELSE repo' = repo
              /\ Panic("No viable repos to choose issues from.", None)
    /\ UNCHANGED <<cli, env, args, token, client, requests, repos_resp,
                   repos, issues_resp, issues, issue>>

\* main, lines 74-76.
FetchIssues ==
    /\ pc = "FetchIssues"
    /\ \E resp \in Responses(IssueBodies) :
         LET got == get_issues(resp) IN
         /\ requests' = Append(requests, Request(IssuesUrl(repo.val.full_name)))
         /\ issues_resp' = Some(resp)
         /\ IF got.ok
            THEN issues' = got.val /\ Goto("SelectIssue")
            ELSE issues' = issues
                 /\ Panic("Failed to retrieve issues.", Some(got.val))
    /\ UNCHANGED <<cli, env, args, token, client, repos_resp, repos,
                   filtered_repos, repo, issue, stdout>>

\* The choice asking for the issues once more when the list is empty.
SelectIssue_retry ==
    /\ pc = "SelectIssue"
    /\ \E chosen \in Choose(issues) :
         IF chosen.some
         THEN issue' = chosen /\ Goto("Print")
         ELSE IF Len(requests) < 3
         THEN issue' = issue /\ Goto("FetchIssues")
         ELSE issue' = issue /\ Panic("No viable issue found.", None)
    /\ UNCHANGED <<cli, env, args, token, client, requests, repos_resp,
                   repos, filtered_repos, repo, issues_resp, issues, stdout>>

\* main, lines 77-79.
SelectIssue ==
    /\ pc = "SelectIssue"
    /\ \E chosen \in Choose(issues) :
         IF chosen.some
         THEN issue' = chosen /\ Goto("Print")
         ELSE issue' = issue /\ Panic("No viable issue found.", None)
    /\ UNCHANGED <<cli, env, args, token, client, requests, repos_resp,
                   repos, filtered_repos, repo, issues_resp, issues, stdout>>

\* main, lines 80-81: the result line, then main returns.
PrintIssue ==
    /\ pc = "Print"
    /\ stdout' = Append(stdout, ResultLine(issue.val))
    /\ pc' = "Exit"
    /\ exit_code' = Some(0)
    /\ UNCHANGED <<cli, env, trace, args, token, client, requests,
                   repos_resp, repos, filtered_repos, repo, issues_resp,
                   issues, issue, stderr>>

Next ==
    \/ ParseConfig
    \/ BuildClient
    \/ FetchRepos
    \/ FilterSelectRepo
    \/ FetchIssues
    \/ SelectIssue
    \/ PrintIssue

Spec == Init /\ [][Next]_vars

-----------------------------------------------------------------------------
(* Vocabulary of the properties.                                             *)
Last(s) == s[Len(s)]
StartsWith(s, p) == Len(s) >= Len(p) /\ SubSeq(s, 1, Len(p)) = p
EndsWith(s, p) ==
    Len(s) >= Len(p) /\ SubSeq(s, Len(s) - Len(p) + 1, Len(s)) = p

Stages == <<"ParseConfig", "BuildClient", "FetchRepos", "FilterSelectRepo",
            "FetchIssues", "SelectIssue", "Print">>

Entered(stage) == \E i \in 1..Len(trace) : trace[i] = stage
\* The stage was entered and has run to its end or to its failure.
Ran(stage) == Entered(stage) /\ pc # stage

IsRepoListUrl(u) ==
    \/ u = "https://api.github.com/user/repos?per_page=100"
    \/ /\ StartsWith(u, "https://api.github.com/users/")
       /\ EndsWith(u, "/repos?per_page=100")
IsIssuesUrl(u) ==
    /\ StartsWith(u, "https://api.github.com/repos/")
    /\ EndsWith(u, "/issues")

RepoListRequests == { i \in 1..Len(requests) : IsRepoListUrl(requests[i].url) }
IssueRequests == { i \in 1..Len(requests) : IsIssuesUrl(requests[i].url) }

\* The filter predicate as the specification words it.
Viable(r, include_forked_repos) ==
    r.has_issues = TRUE /\ r.open_issues > 0
    /\ (include_forked_repos \/ r.fork = FALSE)

\* The run ended after printing the line of the chosen issue.
IssuePrinted ==
    /\ pc = "Exit"
    /\ issue.some
    /\ Len(stdout) > 0
    /\ StartsWith(Last(stdout), "<star><unicorn> [")

\* The repository endpoint answered, with a status outside 2xx.
RepoStatusNotSuccess ==
    /\ repos_resp.some
    /\ repos_resp.val.sent
    /\ repos_resp.val.status \notin 200..299

-----------------------------------------------------------------------------
\* C1: once the filter has run, the filtered list is exactly the fetched
\* repositories with has_issues, open_issues > 0 and (include_forked_repos or
\* not a fork), none dropped, none added, in their fetched order.
C1_FilterExact ==
    Ran("FilterSelectRepo") =>
        LET inc == args.val.include_forked_repos
            kept == { i \in 1..Len(repos) : Viable(repos[i], inc) }
            nth(j) == CHOOSE i \in kept :
                          Cardinality({ k \in kept : k <= i }) = j
        IN  /\ Len(filtered_repos) = Cardinality(kept)
            /\ \A j \in 1..Len(filtered_repos) :
                   filtered_repos[j] = repos[nth(j)]

\* C1 witness: without --include-forked-repos a fork is dropped in front of
\* a repository that is kept.
C1_Witness ==
    /\ Ran("FilterSelectRepo")
    /\ ~args.val.include_forked_repos
    /\ Len(repos) = 2
    /\ repos[1].fork /\ repos[1].has_issues /\ repos[1].open_issues > 0
    /\ filtered_repos = <<repos[2]>>

\* C2: when the filtered list is empty the run ends with the "no viable
\* repository" failure and no request to an issues endpoint is ever sent.
C2_EmptyFilterNoIssueFetch ==
    (Ran("FilterSelectRepo") /\ filtered_repos = <<>>) =>
        /\ pc = "Exit"
        /\ exit_code.some /\ exit_code.val # 0
        /\ Len(stderr) = 1
        /\ stderr[1].msg = "No viable repos to choose issues from."
        /\ IssueRequests = {}
        /\ ~issues_resp.some
        /\ ~Entered("FetchIssues")

\* C2 witness: repositories were fetched and the filter kept none of them.
C2_Witness ==
    /\ Ran("FilterSelectRepo")
    /\ Len(repos) > 0
    /\ filtered_repos = <<>>
    /\ pc = "Exit"

\* C3 (as claimed): in both modes a non-success status of the repository
\* endpoint gives an error carrying the status code and the body text, whatever
\* the body, and the run does not go on to filtering.
C3_StatusErrorBothModes ==
    RepoStatusNotSuccess =>
        /\ pc = "Exit"
        /\ ~Entered("FilterSelectRepo")
        /\ Len(stderr) = 1
        /\ stderr[1].err.some
        /\ stderr[1].err.val.kind = "BadRequestError"
        /\ stderr[1].err.val.status = repos_resp.val.status
        /\ stderr[1].err.val.text = repos_resp.val.body

\* C4: for every combination of command-line token and ISSUE_ROULETTE_TOKEN,
\* the resolved token is the command-line token if present, else the value of
\* the environment variable if present; with neither no token is resolved and
\* the run is unauthenticated, no request carrying an Authorization header.
C4_TokenResolution ==
    (args.some /\ pc # "ParseConfig") =>
        LET bearer(t) == <<66, 101, 97, 114, 101, 114, 32>> \o t
            \* the token is `t`, or the header could not be built from it
            resolvedIs(t) ==
                \/ /\ token = Some(bearer(t))
                   /\ client.some =>
                          /\ "authorization" \in DOMAIN client.val.default_headers
                          /\ client.val.default_headers["authorization"] = bearer(t)
                   /\ \A i \in 1..Len(requests) :
                          /\ "authorization" \in DOMAIN requests[i].headers
                          /\ requests[i].headers["authorization"] = bearer(t)
                \/ /\ \E i \in 1..Len(t) : t[i] < 32 /\ t[i] # 9
                   /\ token = None
                   /\ pc = "Exit"
                   /\ stderr = << [msg |-> "Failed to build Auth token header.",
                                   err |-> Some([kind |-> "InvalidHeaderValue"])] >>
        IN  /\ cli.token.some => resolvedIs(cli.token.val)
            /\ (~cli.token.some /\ env.some) => resolvedIs(env.val)
            /\ (~cli.token.some /\ ~env.some) =>
                   /\ token = None
                   /\ client.some =>
                          "authorization" \notin DOMAIN client.val.default_headers
                   /\ \A i \in 1..Len(requests) :
                          "authorization" \notin DOMAIN requests[i].headers
                   /\ \A i \in RepoListRequests :
                          StartsWith(requests[i].url, "https://api.github.com/users/")

\* C4 witness: both sources hold a token and a request went out with the
\* command-line one.
C4_Witness ==
    /\ cli.token = Some(<<99, 108, 105>>)
    /\ env = Some(<<101, 110, 118>>)
    /\ Len(requests) > 0
    /\ requests[1].headers["authorization"]
           = <<66, 101, 97, 114, 101, 114, 32, 99, 108, 105>>

\* C5: the repository request goes to /user/repos?per_page=100 iff a token
\* was resolved and to /users/{username}/repos?per_page=100 iff none was;
\* one of the two is requested, exactly once.
C5_RepoEndpoint ==
    /\ Cardinality(RepoListRequests) <= 1
    /\ Ran("FetchRepos") => Cardinality(RepoListRequests) = 1
    /\ \A i \in RepoListRequests :
           /\ i = 1
           /\ token.some <=>
                  requests[i].url = "https://api.github.com/user/repos?per_page=100"
           /\ ~token.some <=>
                  requests[i].url = "https://api.github.com/users/"
                                        \o args.val.username
                                        \o "/repos?per_page=100"
    /\ \A i \in 1..Len(requests) : i \in RepoListRequests \/ i \in IssueRequests

\* C5 witness: an unauthenticated run for user bob that went on to request
\* issues.
C5_Witness ==
    /\ ~token.some
    /\ args.some /\ args.val.username = "bob"
    /\ Len(requests) = 2
    /\ requests[1].url = "https://api.github.com/users/bob/repos?per_page=100"

\* The object of the issue response the chosen issue was read from.
ChosenIssueJson ==
    { o \in { issues_resp.val.body.val[j] : j \in 1..Len(issues_resp.val.body.val) } :
          o.number = issue.val.number /\ o.title = issue.val.title }

\* The issue endpoint answered with the specification's example response.
ExampleIssueResponse ==
    /\ issues_resp.some
    /\ issues_resp.val.sent
    /\ issues_resp.val.status = 200
    /\ issues_resp.val.body =
           [tag |-> "array",
            val |-> << [title |-> "Fix bug", number |-> 7, url |-> "http://x/7"] >>]

\* C6 (as claimed): a successful run prints exactly
\* <star><unicorn> [N] T -> U <unicorn><star> with U the `url` field of the
\* chosen issue in the response; the example response yields the line for
\* issue 7.
C6_PrintsUrlField ==
    /\ IssuePrinted =>
           \A o \in ChosenIssueJson :
               Last(stdout) = "<star><unicorn> [" \o ToString(o.number) \o "] "
                                  \o o.title \o " -> " \o o.url
                                  \o " <unicorn><star>"
    /\ (ExampleIssueResponse /\ pc = "Exit") =>
           /\ IssuePrinted
           /\ Last(stdout) = "<star><unicorn> [7] Fix bug -> http://x/7 <unicorn><star>"

\* C6 (amended): a successful run prints exactly
\* <star><unicorn> [N] T -> U <unicorn><star> with U the `html_url` field of
\* the chosen issue in the response; a response whose objects have `url` but
\* no `html_url` fails to decode and ends the run with "Failed to retrieve
\* issues".
C6_PrintsHtmlUrlField ==
    /\ IssuePrinted =>
           /\ ChosenIssueJson # {}
           /\ \A o \in ChosenIssueJson :
                  Last(stdout) = "<star><unicorn> [" \o ToString(o.number) \o "] "
                                     \o o.title \o " -> " \o o.html_url
                                     \o " <unicorn><star>"
    /\ (ExampleIssueResponse /\ pc = "Exit") =>
           /\ ~IssuePrinted
           /\ exit_code = Some(101)
           /\ stderr = << [msg |-> "Failed to retrieve issues.",
                           err |-> Some([kind |-> "reqwest::Error",
                                         what |-> "decode"])] >>

\* C6 witness: for repository a/b the issue 7 "Fix bug" with html_url
\* http://x/7 was chosen and printed.
C6_Witness ==
    /\ IssuePrinted
    /\ repo.val.full_name = "a/b"
    /\ Last(stdout) = "<star><unicorn> [7] Fix bug -> http://x/7 <unicorn><star>"

\* C7 (as claimed): a successful run has written exactly one line to
\* standard output, the issue line, and nothing at any earlier stage.
C7_SingleLine ==
    IssuePrinted => Len(stdout) = 1

\* C7 (amended): a successful run has written exactly two lines to standard
\* output: "Choosing issue from N repositories..." with N the number of
\* fetched repositories, written once the repositories are fetched and before
\* the filter, then the issue line; nothing else is written at any stage.
C7_TwoLines ==
    LET progress == "Choosing issue from " \o ToString(Len(repos))
                        \o " repositories..."
    IN  /\ pc \in {"ParseConfig", "BuildClient", "FetchRepos", "FilterSelectRepo"}
               => stdout = <<>>
        /\ pc \in {"FetchIssues", "SelectIssue", "Print"} => stdout = <<progress>>
        /\ IssuePrinted =>
               /\ Len(stdout) = 2
               /\ stdout[1] = progress
               /\ StartsWith(stdout[2], "<star><unicorn> [")
               /\ EndsWith(stdout[2], " <unicorn><star>")

\* C7 witness: a successful run over a listing of two repositories.
C7_Witness ==
    /\ IssuePrinted
    /\ Len(repos) = 2
    /\ stdout[1] = "Choosing issue from 2 repositories..."

\* The message main gives when the named stage fails.
FailureMessages(stage) ==
    CASE stage = "ParseConfig" ->
           { "the following required arguments were not provided: --username <USERNAME>",
             "Failed to build Auth token header." }
      [] stage = "BuildClient" -> { "Failed to build http client." }
      [] stage = "FetchRepos" -> { "Failed to retrieve repositories." }
      [] stage = "FilterSelectRepo" -> { "No viable repos to choose issues from." }
      [] stage = "FetchIssues" -> { "Failed to retrieve issues." }
      [] stage = "SelectIssue" -> { "No viable issue found." }
      [] OTHER -> {}

\* C8 (as claimed): a run ends with exit code 0 iff it printed the chosen
\* issue; every run that hits a failure ends with a non-zero exit code and a
\* message.
C8_ExitZeroIffIssuePrinted ==
    pc = "Exit" =>
        /\ exit_code.some
        /\ exit_code.val = 0 <=> IssuePrinted
        /\ ~IssuePrinted => Len(stderr) > 0

\* C8 (amended): a run ends with exit code 0 iff it printed the chosen issue
\* or was started with --help or --version, which print the help or version
\* text and no issue; every other run that ends ends with a non-zero exit
\* code and one message on standard error, the message of the stage that
\* failed (argument error, token header, client, repository fetch or decode,
\* empty filtered list, issue fetch or decode, empty issue list); a run that
\* has not ended has no exit code.
C8_ExitCodes ==
    LET display == cli.flag \in {"help", "version"} IN
    /\ pc # "Exit" => (~exit_code.some /\ stderr = <<>>)
    /\ pc = "Exit" =>
           /\ exit_code.some
           /\ exit_code.val = 0 <=> (IssuePrinted \/ display)
           /\ display => (~IssuePrinted /\ Len(stdout) = 1 /\ stderr = <<>>)
           /\ IssuePrinted => (trace = Stages /\ stderr = <<>>)
           /\ (~IssuePrinted /\ ~display) =>
                  /\ exit_code.val \in {2, 101}
                  /\ Len(stderr) = 1
                  /\ stderr[1].msg \in FailureMessages(Last(trace))

\* C8 witness: the issue list came back empty and the run ended with the
\* panic status.
C8_Witness ==
    /\ pc = "Exit"
    /\ Last(trace) = "SelectIssue"
    /\ issues_resp.some /\ issues = <<>>
    /\ exit_code = Some(101)
    /\ stderr[1].msg = "No viable issue found."

\* C9: the stages are entered in the order ParseConfig, BuildClient,
\* FetchRepos, FilterSelectRepo, FetchIssues, SelectIssue, Print, each at most
\* once; the issue request is sent only after the repository answer was
\* received and filtered and a repository chosen; no request is sent twice;
\* after a failure nothing more happens.
C9_Linear ==
    /\ [](/\ Len(trace) <= Len(Stages)
          /\ \A i \in 1..Len(trace) : trace[i] = Stages[i]
          /\ pc \in {Last(trace), "Exit"}
          /\ Cardinality(RepoListRequests) <= 1
          /\ Cardinality(IssueRequests) <= 1
          /\ Len(requests) <= 2
          /\ \A i \in IssueRequests :
                 /\ i = 2 /\ 1 \in RepoListRequests
                 /\ repos_resp.some
                 /\ Ran("FilterSelectRepo")
                 /\ repo.some
                 /\ \E j \in 1..Len(filtered_repos) : filtered_repos[j] = repo.val
          /\ (pc = "Exit" /\ ~IssuePrinted) =>
                 /\ Len(requests) = (IF Entered("FetchRepos") THEN 1 ELSE 0)
                                  + (IF Entered("FetchIssues") THEN 1 ELSE 0)
                 /\ \A i \in 1..Len(stdout) : ~StartsWith(stdout[i], "<star>"))
    /\ [][pc = "Exit" => UNCHANGED vars]_vars
    /\ [][pc # "Exit" =>
            /\ requests' = requests \/ (Len(requests') = Len(requests) + 1
                                        /\ pc \in {"FetchRepos", "FetchIssues"})
            /\ trace' = trace \/ (pc' # "Exit" /\ trace' = Append(trace, pc'))
            /\ pc' # pc]_vars

\* C9 witness: a run went through all seven stages and sent both requests.
C9_Witness ==
    /\ pc = "Exit"
    /\ trace = Stages
    /\ Len(requests) = 2
    /\ IssuePrinted

\* C10: an issue request names a repository that is in the list the
\* repository request returned and passes the filter; a printed issue is an
\* element of the list returned for that repository; and every element of a
\* non-empty filtered list, and of a non-empty issue list, can be the one
\* chosen.
C10_Selection ==
    /\ \A q \in IssueRequests :
           \E i \in 1..Len(repos_resp.val.body.val) :
               LET o == repos_resp.val.body.val[i] IN
               /\ requests[q].url =
                      "https://api.github.com/repos/" \o o.full_name \o "/issues"
               /\ Viable(o, args.val.include_forked_repos)
    /\ IssuePrinted =>
           \E j \in 1..Len(issues_resp.val.body.val) :
               LET o == issues_resp.val.body.val[j] IN
               Last(stdout) = "<star><unicorn> [" \o ToString(o.number) \o "] "
                                  \o o.title \o " -> " \o o.html_url
                                  \o " <unicorn><star>"
    /\ pc = "FilterSelectRepo" =>
           \A i \in 1..Len(repos) :
               Viable(repos[i], args.val.include_forked_repos) =>
                   ENABLED (FilterSelectRepo /\ repo' = Some(repos[i]))
    /\ pc = "SelectIssue" =>
           \A j \in 1..Len(issues) :
               ENABLED (SelectIssue /\ issue' = Some(issues[j]))

\* C10 witness: the second of two viable repositories and the second of two
\* different issues were the ones chosen.
C10_Witness ==
    /\ IssuePrinted
    /\ Len(filtered_repos) = 2 /\ repo.val = filtered_repos[2]
    /\ Len(issues) = 2 /\ issues[1] # issues[2] /\ issue.val = issues[2]

=============================================================================
